---------------------------- MODULE Spec2Model ----------------------------
(***************************************************************************)
(* Task dependency management: the tasks table, the task_dependencies      *)
(* table, the request handlers of TaskViewSet and the status derivation    *)
(* and cascade of TaskStatusUpdater.  Requests are executed one at a time. *)
(***************************************************************************)
EXTENDS Integers, Sequences, FiniteSets, TLC

(* ------------------------------ bounds -------------------------------- *)

\* number of task ids the AutoField hands out in one behaviour
MaxTasks == 3

TaskIds == 1..MaxTasks

(* --------------------------- program values --------------------------- *)

\* Task.STATUS_CHOICES
STATUS_CHOICES == {"pending", "in_progress", "completed", "blocked"}

\* Task.status default
DefaultStatus == "pending"

VARIABLES
    tasks,              \* table tasks: id -> status, for the rows that exist
    task_dependencies,  \* table task_dependencies: set of <<task_id, depends_on_id>>
    next_id,            \* next value of Task.id (AutoField)
    response,           \* what the last request did and returned
    workers,            \* the request handlers that run concurrently, query by query
    db0                 \* the two tables as they were when those handlers started

vars == <<tasks, task_dependencies, next_id, response, workers, db0>>

(* ------------------------------ queries ------------------------------- *)

\* TaskDependency.objects.filter(task_id=t): the direct prerequisites of t
dependencies(dp, t) == {e[2] : e \in {x \in dp : x[1] = t}}

\* TaskDependency.objects.filter(depends_on_id=t): the direct dependents of t
dependents(dp, t) == {e[1] : e \in {x \in dp : x[2] = t}}

\* the orders in which a queryset without ORDER BY may return the ids in S
RowOrders(S) ==
    {q \in [1..Cardinality(S) -> S] : \A i, j \in 1..Cardinality(S) : i # j => q[i] # q[j]}

\* the row order of the dependents query of a nested call: Task.save from the
\* derivation stores pending or blocked, and the cascade on a dependent that
\* was just rewritten finds it not completed, so neither reaches its loop
SomeRowOrder(S) == CHOOSE q \in RowOrders(S) : TRUE

(* ------------------------- TaskStatusUpdater -------------------------- *)

\* status_updater.py 34-39: all_completed, over the direct prerequisites
all_completed(tk, dp, t) == \A p \in dependencies(dp, t) : tk[p] = "completed"

\* status_updater.py 41-45: the status the prerequisites call for
new_status(tk, dp, t) == IF all_completed(tk, dp, t) THEN "pending" ELSE "blocked"

\* the derived status is written over a completed task as well
needs_update_NoCompletedGuard(cur, new) == cur # new

\* the derived status is not written over an in-progress task
needs_update_KeepsInProgress(cur, new) ==
    cur # new /\ cur # "completed" /\ cur # "in_progress"

\* the derived status is written whenever the task is not completed
needs_update_AlwaysWrite(cur, new) == cur # "completed"

\* status_updater.py 48: the stored status is rewritten only when it differs
\* from the derived one and the task is not completed
needs_update(cur, new) == cur # new /\ cur # "completed"

RECURSIVE Task_save(_, _, _, _, _)
RECURSIVE update_status_from_dependencies(_, _, _)
RECURSIVE cascade_update_on_completion(_, _, _, _)
RECURSIVE cascade_loop(_, _, _, _, _)

\* Task.save reading the old status after the row is written
Task_save_OldReadAfterWrite(tk, dp, t, s, ord) ==
    LET saved == [tk EXCEPT ![t] = s]
        old_status == saved[t]
    IN  IF old_status # s /\ s = "completed"
        THEN cascade_update_on_completion(saved, dp, t, ord)
        ELSE saved

\* Task.save of an existing row t with status s: read the old status, write
\* the row, cascade when the status changed to completed.  Yields the table.
\* ord is the order in which the cascade's query returns the dependents of t.
Task_save(tk, dp, t, s, ord) ==
    LET old_status == tk[t]
        saved == [tk EXCEPT ![t] = s]
    IN  IF old_status # s /\ s = "completed"
        THEN cascade_update_on_completion(saved, dp, t, ord)
        ELSE saved

\* update_status_from_dependencies without the test dependencies.exists()
update_status_from_dependencies_NoExistsCheck(tk, dp, t) ==
    IF t \notin DOMAIN tk
    THEN [tasks |-> tk, changed |-> FALSE]
    ELSE IF needs_update(tk[t], new_status(tk, dp, t))
    THEN [tasks |-> Task_save(tk, dp, t, new_status(tk, dp, t),
                              SomeRowOrder(dependents(dp, t))),
          changed |-> TRUE]
    ELSE [tasks |-> tk, changed |-> FALSE]

\* TaskStatusUpdater.update_status_from_dependencies(t): the table after the
\* call and the value it returns
update_status_from_dependencies(tk, dp, t) ==
    IF t \notin DOMAIN tk
    THEN [tasks |-> tk, changed |-> FALSE]
    ELSE IF dependencies(dp, t) = {}
    THEN [tasks |-> tk, changed |-> FALSE]
    ELSE IF needs_update(tk[t], new_status(tk, dp, t))
    THEN [tasks |-> Task_save(tk, dp, t, new_status(tk, dp, t),
                              SomeRowOrder(dependents(dp, t))),
          changed |-> TRUE]
    ELSE [tasks |-> tk, changed |-> FALSE]

\* cascade_update_on_completion without the test task.status != 'completed'
cascade_update_on_completion_NoCompletedTest(tk, dp, t, ord) ==
    IF t \notin DOMAIN tk THEN tk
    ELSE cascade_loop(tk, dp, t, ord, 1)

\* TaskStatusUpdater.cascade_update_on_completion(t): the table after the call
cascade_update_on_completion(tk, dp, t, ord) ==
    IF t \notin DOMAIN tk THEN tk
    ELSE IF tk[t] # "completed" THEN tk
    ELSE cascade_loop(tk, dp, t, ord, 1)

\* status_updater.py 83-88: the loop over dependent_ids, which were read once
\* before the loop and came in the order ord; i is the position in ord
cascade_loop(tk, dp, t, ord, i) ==
    IF i > Len(ord) THEN tk
    ELSE LET r == update_status_from_dependencies(tk, dp, ord[i])
             after == IF r.changed
                      THEN cascade_update_on_completion(r.tasks, dp, ord[i],
                               SomeRowOrder(dependents(dp, ord[i])))
                      ELSE r.tasks
         IN  cascade_loop(after, dp, t, ord, i + 1)

(* ---------------------- CircularDependencyChecker --------------------- *)

RECURSIVE reachable(_, _, _)
\* the tasks reached from the tasks in frontier by following prerequisite
\* edges, frontier included; visited marks the tasks already expanded
reachable(dp, frontier, visited) ==
    IF frontier \subseteq visited THEN visited
    ELSE LET n == CHOOSE x \in frontier \ visited : TRUE
         IN  reachable(dp, (frontier \cup dependencies(dp, n)) \ {n}, visited \cup {n})

\* CircularDependencyChecker.detect_circular_dependency(task_id, depends_on_id)
\* ['has_cycle']: the edge closes a cycle when it is a self-loop or when
\* depends_on_id already reaches task_id
detect_circular_dependency(dp, task_id, depends_on_id) ==
    task_id = depends_on_id \/ task_id \in reachable(dp, {depends_on_id}, {})

(* ------------------------------ responses ----------------------------- *)

\* the statuses a request rewrote: the task and the status it had before
Written(old, new) ==
    {<<x, old[x]>> : x \in {y \in DOMAIN old \cap DOMAIN new : old[y] # new[y]}}

\* op, task, arg: the request; code: its outcome; changed: the value the
\* derivation it ran returned; written: the statuses it rewrote;
\* dependent_tasks: the list a HasDependents error carries
Response(op, t, arg, code, changed, written, deps) ==
    [op |-> op, task |-> t, arg |-> arg, code |-> code,
     changed |-> changed, written |-> written, dependent_tasks |-> deps]

(* ------------------------------- Init --------------------------------- *)

Init ==
    /\ tasks = << >>
    /\ task_dependencies = {}
    /\ next_id = 1
    /\ response = Response("none", 0, 0, "none", FALSE, {}, {})
    /\ workers = << >>
    /\ db0 = << >>

(* ------------------------- TaskDependency model ----------------------- *)

\* TaskDependency.save deriving the status before the row is inserted
TaskDependency_save_DeriveBeforeInsert(tk, dp, t, d) ==
    LET inserted == dp \cup {<<t, d>>}
        r == update_status_from_dependencies(tk, dp, t)
    IN  [tasks |-> r.tasks, deps |-> inserted, changed |-> r.changed]

\* TaskDependency.save: insert the row, then derive the dependent's status
TaskDependency_save(tk, dp, t, d) ==
    LET inserted == dp \cup {<<t, d>>}
        r == update_status_from_dependencies(tk, inserted, t)
    IN  [tasks |-> r.tasks, deps |-> inserted, changed |-> r.changed]

\* TaskDependency.delete: delete the row, then derive the dependent's status
TaskDependency_delete(tk, dp, t, d) ==
    LET deleted == dp \ {<<t, d>>}
        r == update_status_from_dependencies(tk, deleted, t)
    IN  [tasks |-> r.tasks, deps |-> deleted, changed |-> r.changed]

(* ------------------------------ TaskViewSet --------------------------- *)

\* TaskViewSet.create: a new row with the next id and the default status
create ==
    /\ next_id <= MaxTasks
    /\ tasks' = tasks @@ (next_id :> DefaultStatus)
    /\ next_id' = next_id + 1
    /\ response' = Response("create", next_id, 0, "Created", FALSE, {}, {})
    /\ UNCHANGED <<task_dependencies, workers, db0>>

\* TaskViewSet.update with a status in the request: SetStatus(t, s)
update(t, s) ==
    /\ IF t \notin DOMAIN tasks
       THEN /\ response' = Response("update", t, 0, "TaskNotFound", FALSE, {}, {})
            /\ UNCHANGED tasks
       ELSE /\ \E ord \in RowOrders(dependents(task_dependencies, t)) :
                   tasks' = Task_save(tasks, task_dependencies, t, s, ord)
            /\ response' = Response("update", t, 0, "OK", FALSE, Written(tasks, tasks'), {})
    /\ UNCHANGED <<task_dependencies, next_id, workers, db0>>

\* destroy without the test on the dependents
destroy_NoGuard(t) ==
    /\ IF t \notin DOMAIN tasks
       THEN /\ response' = Response("destroy", t, 0, "TaskNotFound", FALSE, {}, {})
            /\ UNCHANGED <<tasks, task_dependencies>>
       ELSE /\ tasks' = [x \in DOMAIN tasks \ {t} |-> tasks[x]]
            /\ task_dependencies' = {e \in task_dependencies : e[1] # t /\ e[2] # t}
            /\ response' = Response("destroy", t, 0, "Deleted", FALSE, {}, {})
    /\ UNCHANGED <<next_id, workers, db0>>

\* destroy on foreign keys that do not cascade: the edges of the task stay
destroy_KeepsEdges(t) ==
    /\ IF t \notin DOMAIN tasks
       THEN /\ response' = Response("destroy", t, 0, "TaskNotFound", FALSE, {}, {})
            /\ UNCHANGED <<tasks, task_dependencies>>
       ELSE IF Cardinality(dependents(task_dependencies, t)) > 0
       THEN /\ response' = Response("destroy", t, 0, "HasDependents", FALSE, {},
                                    dependents(task_dependencies, t))
            /\ UNCHANGED <<tasks, task_dependencies>>
       ELSE /\ tasks' = [x \in DOMAIN tasks \ {t} |-> tasks[x]]
            /\ task_dependencies' = task_dependencies
            /\ response' = Response("destroy", t, 0, "Deleted", FALSE, {}, {})
    /\ UNCHANGED <<next_id, workers, db0>>

\* TaskViewSet.destroy: DeleteTask(t)
destroy(t) ==
    /\ IF t \notin DOMAIN tasks
       THEN /\ response' = Response("destroy", t, 0, "TaskNotFound", FALSE, {}, {})
            /\ UNCHANGED <<tasks, task_dependencies>>
       ELSE IF Cardinality(dependents(task_dependencies, t)) > 0
       THEN /\ response' = Response("destroy", t, 0, "HasDependents", FALSE, {},
                                    dependents(task_dependencies, t))
            /\ UNCHANGED <<tasks, task_dependencies>>
       ELSE /\ tasks' = [x \in DOMAIN tasks \ {t} |-> tasks[x]]
            /\ task_dependencies' = {e \in task_dependencies : e[1] # t /\ e[2] # t}
            /\ response' = Response("destroy", t, 0, "Deleted", FALSE, {}, {})
    /\ UNCHANGED <<next_id, workers, db0>>

\* add_dependency with the cycle check's result ignored
add_dependency_outcome_NoCycleCheck(tk, dp, t, depends_on_id) ==
    IF t \notin DOMAIN tk THEN "TaskNotFound"
    ELSE IF t = depends_on_id THEN "SelfDependency"
    ELSE IF <<t, depends_on_id>> \in dp THEN "DuplicateEdge"
    ELSE IF depends_on_id \notin DOMAIN tk THEN "TaskNotFound"
    ELSE "Created"

\* add_dependency without the test that the dependency already exists
add_dependency_outcome_NoDuplicateCheck(tk, dp, t, depends_on_id) ==
    IF t \notin DOMAIN tk THEN "TaskNotFound"
    ELSE IF t = depends_on_id THEN "SelfDependency"
    ELSE IF detect_circular_dependency(dp, t, depends_on_id) THEN "CycleDetected"
    ELSE IF depends_on_id \notin DOMAIN tk THEN "TaskNotFound"
    ELSE "Created"

\* add_dependency without the test task.id == depends_on_id
add_dependency_outcome_NoSelfCheck(tk, dp, t, depends_on_id) ==
    IF t \notin DOMAIN tk THEN "TaskNotFound"
    ELSE IF <<t, depends_on_id>> \in dp THEN "DuplicateEdge"
    ELSE IF detect_circular_dependency(dp, t, depends_on_id) THEN "CycleDetected"
    ELSE IF depends_on_id \notin DOMAIN tk THEN "TaskNotFound"
    ELSE "Created"

\* views.py 74-135: the checks of add_dependency in the order the handler
\* makes them, and the outcome they lead to
add_dependency_outcome(tk, dp, t, depends_on_id) ==
    IF t \notin DOMAIN tk THEN "TaskNotFound"
    ELSE IF t = depends_on_id THEN "SelfDependency"
    ELSE IF <<t, depends_on_id>> \in dp THEN "DuplicateEdge"
    ELSE IF detect_circular_dependency(dp, t, depends_on_id) THEN "CycleDetected"
    ELSE IF depends_on_id \notin DOMAIN tk THEN "TaskNotFound"
    ELSE "Created"

\* TaskViewSet.add_dependency: AddDependency(t, depends_on_id)
add_dependency(t, depends_on_id) ==
    /\ LET code == add_dependency_outcome(tasks, task_dependencies, t, depends_on_id)
           r == TaskDependency_save(tasks, task_dependencies, t, depends_on_id)
       IN  IF code = "Created"
           THEN /\ tasks' = r.tasks
                /\ task_dependencies' = r.deps
                /\ response' = Response("add_dependency", t, depends_on_id, code, r.changed,
                                        Written(tasks, r.tasks), {})
           ELSE /\ response' = Response("add_dependency", t, depends_on_id, code, FALSE, {}, {})
                /\ UNCHANGED <<tasks, task_dependencies>>
    /\ UNCHANGED <<next_id, workers, db0>>

\* TaskViewSet.remove_dependency: RemoveDependency(t, depends_on_id)
remove_dependency(t, depends_on_id) ==
    /\ IF t \notin DOMAIN tasks
       THEN /\ response' = Response("remove_dependency", t, depends_on_id, "TaskNotFound", FALSE, {}, {})
            /\ UNCHANGED <<tasks, task_dependencies>>
       ELSE IF <<t, depends_on_id>> \notin task_dependencies
       THEN /\ response' = Response("remove_dependency", t, depends_on_id, "EdgeNotFound", FALSE, {}, {})
            /\ UNCHANGED <<tasks, task_dependencies>>
       ELSE LET r == TaskDependency_delete(tasks, task_dependencies, t, depends_on_id)
            IN  /\ tasks' = r.tasks
                /\ task_dependencies' = r.deps
                /\ response' = Response("remove_dependency", t, depends_on_id, "Deleted", r.changed,
                                             Written(tasks, r.tasks), {})
    /\ UNCHANGED <<next_id, workers, db0>>

Next ==
    \/ create
    \/ \E t \in TaskIds, s \in STATUS_CHOICES : update(t, s)
    \/ \E t \in TaskIds : destroy(t)
    \/ \E t \in TaskIds, d \in TaskIds : add_dependency(t, d)
    \/ \E t \in TaskIds, d \in TaskIds : remove_dependency(t, d)

Spec == Init /\ [][Next]_vars

(* ----------------------------- type invariant ------------------------- *)

TypeOK ==
    /\ DOMAIN tasks \subseteq TaskIds
    /\ \A t \in DOMAIN tasks : tasks[t] \in STATUS_CHOICES
    /\ task_dependencies \subseteq (DOMAIN tasks) \X (DOMAIN tasks)
    /\ next_id \in 1..(MaxTasks + 1)


(* ------------- the status engine called twice in succession ----------- *)

\* the stores the engine can be called on: every task present with any
\* status, and any set of edges between distinct tasks without a cycle
EdgeSets ==
    {dp \in SUBSET {e \in TaskIds \X TaskIds : e[1] # e[2]} :
        \A t \in TaskIds : t \notin reachable(dp, dependencies(dp, t), {})}

InitEngine ==
    /\ tasks \in [TaskIds -> STATUS_CHOICES]
    /\ task_dependencies \in EdgeSets
    /\ next_id = MaxTasks + 1
    /\ response = Response("none", 0, 0, "none", FALSE, {}, {})
    /\ workers = << >>
    /\ db0 = << >>

\* the call op on task t repeats the call before it
Repeats(op, t) == response.op = op /\ response.task = t

\* the response of an engine call: code tells whether it repeats the call
\* before it, and arg how many statuses that call wrote
EngineResponse(op, t, changed, written) ==
    Response(op, t, IF Repeats(op, t) THEN Cardinality(response.written) ELSE 0,
             IF Repeats(op, t) THEN "Repeat" ELSE "First", changed, written, {})

\* a call of TaskStatusUpdater.update_status_from_dependencies(t)
Derive(t) ==
    /\ LET r == update_status_from_dependencies(tasks, task_dependencies, t)
       IN  /\ tasks' = r.tasks
           /\ response' = EngineResponse("derive", t, r.changed, Written(tasks, r.tasks))
    /\ UNCHANGED <<task_dependencies, next_id, workers, db0>>

\* a call of TaskStatusUpdater.cascade_update_on_completion(t)
Cascade(t) ==
    /\ \E ord \in RowOrders(dependents(task_dependencies, t)) :
          tasks' = cascade_update_on_completion(tasks, task_dependencies, t, ord)
    /\ response' = EngineResponse("cascade", t, FALSE, Written(tasks, tasks'))
    /\ UNCHANGED <<task_dependencies, next_id, workers, db0>>

NextEngine ==
    \/ \E t \in TaskIds : Derive(t)
    \/ \E t \in TaskIds : Cascade(t)

SpecEngine == InitEngine /\ [][NextEngine]_vars

(* ------------- request handlers that run query by query --------------- *)
(* Every query and every write of a handler is one step; the steps of      *)
(* different handlers interleave.  No handler opens a transaction or takes *)
(* a lock, so each statement commits on its own.  Tasks are neither        *)
(* created nor deleted while the handlers run, so the lookups of the tasks *)
(* a request names (get_object, Task.objects.get) succeed and are left out *)
(* of the steps.                                                           *)

\* a handler that has not started: op on task t with argument a (the
\* prerequisite) or status st (the status to set).
\* stack: the calls of cascade_update_on_completion in progress, each with
\* its task and the dependent_ids the loop has still to visit;
\* dt, cur, new: task, task.status and new_status of the derivation in
\* progress; old: old_status of the Task.save in progress;
\* writes: the status writes made so far
NewWorker(op, t, a, st) ==
    [op |-> op, task |-> t, arg |-> a, status |-> st,
     pc |-> CASE op = "add_dependency" -> "exists"
              [] op = "remove_dependency" -> "get_edge"
              [] OTHER -> "save_read",
     code |-> "", stack |-> << >>, dt |-> 0, cur |-> "", new |-> "", old |-> "",
     writes |-> 0]

\* the handler returns its response; its locals are gone
Finish(r, code) ==
    [r EXCEPT !.pc = "done", !.code = code, !.stack = << >>, !.dt = 0,
              !.cur = "", !.new = "", !.old = ""]

\* update_status_from_dependencies returns changed to its caller: to
\* TaskDependency.save or delete, which return to the view, or to the loop of
\* the cascade at the top of the stack (status_updater.py 84-88)
Return(r, changed) ==
    IF r.stack = << >>
    THEN Finish(r, IF r.op = "add_dependency" THEN "Created" ELSE "Deleted")
    ELSE IF changed
    THEN [r EXCEPT !.stack = Append(@, [task |-> r.dt, ids |-> << >>]), !.pc = "c_get"]
    ELSE [r EXCEPT !.pc = "c_next"]

\* cascade_update_on_completion returns: to the loop that called it, or to
\* Task.save and the view
PopFrame(r) ==
    LET rest == SubSeq(r.stack, 1, Len(r.stack) - 1)
    IN  IF rest = << >> THEN Finish(r, "OK")
        ELSE [r EXCEPT !.stack = rest, !.pc = "c_next"]

\* the task of the cascade call at the top of the stack
Top(r) == r.stack[Len(r.stack)]

At(w, pc) == w \in DOMAIN workers /\ workers[w].pc = pc

Goto(w, r) == workers' = [workers EXCEPT ![w] = r]

\* views.py 81-95: the self-dependency test and the exists() query
w_exists(w) ==
    /\ At(w, "exists")
    /\ LET r == workers[w]
       IN  Goto(w, IF r.task = r.arg THEN Finish(r, "SelfDependency")
                   ELSE IF <<r.task, r.arg>> \in task_dependencies
                   THEN Finish(r, "DuplicateEdge")
                   ELSE [r EXCEPT !.pc = "cycle"])
    /\ UNCHANGED <<tasks, task_dependencies, next_id, response, db0>>

\* views.py 98-110: the cycle check, on the edges as they are at this moment
w_cycle(w) ==
    /\ At(w, "cycle")
    /\ LET r == workers[w]
       IN  Goto(w, IF detect_circular_dependency(task_dependencies, r.task, r.arg)
                   THEN Finish(r, "CycleDetected")
                   ELSE [r EXCEPT !.pc = "insert"])
    /\ UNCHANGED <<tasks, task_dependencies, next_id, response, db0>>

\* views.py 115-118, models.py 75: the INSERT; unique_together makes it fail
\* when the pair has a row by now
w_insert(w) ==
    /\ At(w, "insert")
    /\ LET r == workers[w]
       IN  IF <<r.task, r.arg>> \in task_dependencies
           THEN /\ Goto(w, Finish(r, "IntegrityError"))
                /\ UNCHANGED task_dependencies
           ELSE /\ task_dependencies' = task_dependencies \cup {<<r.task, r.arg>>}
                /\ Goto(w, [r EXCEPT !.pc = "d_get", !.dt = r.task])
    /\ UNCHANGED <<tasks, next_id, response, db0>>

\* views.py 150-153: TaskDependency.objects.get
w_get_edge(w) ==
    /\ At(w, "get_edge")
    /\ LET r == workers[w]
       IN  Goto(w, IF <<r.task, r.arg>> \in task_dependencies
                   THEN [r EXCEPT !.pc = "delete"]
                   ELSE Finish(r, "EdgeNotFound"))
    /\ UNCHANGED <<tasks, task_dependencies, next_id, response, db0>>

\* models.py 87: the DELETE of the row
w_delete(w) ==
    /\ At(w, "delete")
    /\ LET r == workers[w]
       IN  /\ task_dependencies' = task_dependencies \ {<<r.task, r.arg>>}
           /\ Goto(w, [r EXCEPT !.pc = "d_get", !.dt = r.task])
    /\ UNCHANGED <<tasks, next_id, response, db0>>

\* models.py 33-39: Task.save of the view reads old_status
w_save_read(w) ==
    /\ At(w, "save_read")
    /\ LET r == workers[w]
       IN  Goto(w, [r EXCEPT !.old = tasks[r.task], !.pc = "save_write"])
    /\ UNCHANGED <<tasks, task_dependencies, next_id, response, db0>>

\* models.py 42-48: Task.save of the view writes the row and calls the
\* cascade when the status changed to completed
w_save_write(w) ==
    /\ At(w, "save_write")
    /\ LET r == workers[w]
           q == [r EXCEPT !.writes = @ + 1]
       IN  /\ tasks' = [tasks EXCEPT ![r.task] = r.status]
           /\ Goto(w, IF r.old # r.status /\ r.status = "completed"
                      THEN [q EXCEPT !.stack = <<[task |-> r.task, ids |-> << >>]>>,
                                     !.pc = "c_get"]
                      ELSE Finish(q, "OK"))
    /\ UNCHANGED <<task_dependencies, next_id, response, db0>>

\* the cascade reads its task and returns when it is completed no more
w_c_get_NoCompletedTest(w) ==
    /\ At(w, "c_get")
    /\ Goto(w, [workers[w] EXCEPT !.pc = "c_query"])
    /\ UNCHANGED <<tasks, task_dependencies, next_id, response, db0>>

\* status_updater.py 66-73: the cascade reads its task and returns unless it
\* is completed
w_c_get(w) ==
    /\ At(w, "c_get")
    /\ LET r == workers[w]
       IN  Goto(w, IF tasks[Top(r).task] # "completed"
                   THEN PopFrame(r)
                   ELSE [r EXCEPT !.pc = "c_query"])
    /\ UNCHANGED <<tasks, task_dependencies, next_id, response, db0>>

\* status_updater.py 78-83: the query of dependent_ids, in some row order
w_c_query(w) ==
    /\ At(w, "c_query")
    /\ LET r == workers[w]
       IN  \E ord \in RowOrders(dependents(task_dependencies, Top(r).task)) :
               Goto(w, [r EXCEPT !.stack[Len(r.stack)].ids = ord, !.pc = "c_next"])
    /\ UNCHANGED <<tasks, task_dependencies, next_id, response, db0>>

\* status_updater.py 83-84: the loop takes the next dependent and calls the
\* derivation on it, or ends
w_c_next(w) ==
    /\ At(w, "c_next")
    /\ LET r == workers[w]
       IN  Goto(w, IF Top(r).ids = << >>
                   THEN PopFrame(r)
                   ELSE [r EXCEPT !.dt = Head(Top(r).ids),
                                  !.stack[Len(r.stack)].ids = Tail(@),
                                  !.pc = "d_get"])
    /\ UNCHANGED <<tasks, task_dependencies, next_id, response, db0>>

\* status_updater.py 22-25: the derivation reads its task
w_d_get(w) ==
    /\ At(w, "d_get")
    /\ LET r == workers[w]
       IN  Goto(w, [r EXCEPT !.cur = tasks[r.dt], !.pc = "d_exists"])
    /\ UNCHANGED <<tasks, task_dependencies, next_id, response, db0>>

\* status_updater.py 28-32: dependencies.exists()
w_d_exists(w) ==
    /\ At(w, "d_exists")
    /\ LET r == workers[w]
       IN  Goto(w, IF dependencies(task_dependencies, r.dt) = {}
                   THEN Return(r, FALSE)
                   ELSE [r EXCEPT !.pc = "d_read"])
    /\ UNCHANGED <<tasks, task_dependencies, next_id, response, db0>>

\* status_updater.py 34-58: the query of the dependencies with their
\* prerequisites' statuses, new_status and the test whether to write
w_d_read(w) ==
    /\ At(w, "d_read")
    /\ LET r == workers[w]
           ns == new_status(tasks, task_dependencies, r.dt)
       IN  Goto(w, IF needs_update(r.cur, ns)
                   THEN [r EXCEPT !.new = ns, !.pc = "d_save_read"]
                   ELSE Return(r, FALSE))
    /\ UNCHANGED <<tasks, task_dependencies, next_id, response, db0>>

\* models.py 33-39: Task.save of the derivation reads old_status
w_d_save_read(w) ==
    /\ At(w, "d_save_read")
    /\ LET r == workers[w]
       IN  Goto(w, [r EXCEPT !.old = tasks[r.dt], !.pc = "d_save_write"])
    /\ UNCHANGED <<tasks, task_dependencies, next_id, response, db0>>

\* models.py 42-48, status_updater.py 54-56: Task.save of the derivation
\* writes the status, which is pending or blocked, so it calls no cascade;
\* the derivation returns True
w_d_save_write(w) ==
    /\ At(w, "d_save_write")
    /\ LET r == workers[w]
       IN  /\ tasks' = [tasks EXCEPT ![r.dt] = r.new]
           /\ Goto(w, Return([r EXCEPT !.writes = @ + 1], TRUE))
    /\ UNCHANGED <<task_dependencies, next_id, response, db0>>

\* the steps of a SetStatus with its cascade
SetStatusStep(w) ==
    \/ w_save_read(w) \/ w_save_write(w)
    \/ w_c_get(w) \/ w_c_query(w) \/ w_c_next(w)
    \/ w_d_get(w) \/ w_d_exists(w) \/ w_d_read(w)
    \/ w_d_save_read(w) \/ w_d_save_write(w)

\* the steps of AddDependency and RemoveDependency up to their derivation
EdgeStep(w) ==
    \/ w_exists(w) \/ w_cycle(w) \/ w_insert(w)
    \/ w_get_edge(w) \/ w_delete(w)

AllDone == workers # << >> /\ \A w \in DOMAIN workers : workers[w].pc = "done"

(* ---- one SetStatus(T, Completed) on any store, run to its end ---- *)

InitCascade ==
    /\ tasks \in [TaskIds -> STATUS_CHOICES]
    /\ task_dependencies \in EdgeSets
    /\ next_id = MaxTasks + 1
    /\ response = Response("none", 0, 0, "none", FALSE, {}, {})
    /\ workers \in {<<NewWorker("update", t, 0, "completed")>> : t \in TaskIds}
    /\ db0 = [tasks |-> tasks, deps |-> task_dependencies]

NextCascade == SetStatusStep(1)

\* the handler is not suspended for ever: a request that can take a step
\* takes one
SpecCascade == InitCascade /\ [][NextCascade]_vars /\ WF_vars(NextCascade)

(* ---- two requests that run concurrently on a consistent store ---- *)

\* the statuses that agree with the edges dp: a task that is not completed
\* is blocked when one of its prerequisites is not completed, else pending
ConsistentStatuses(dp) ==
    {tk \in [TaskIds -> {"pending", "blocked", "completed"}] :
        \A t \in TaskIds :
            tk[t] # "completed"
            => tk[t] = IF \E p \in dependencies(dp, t) : tk[p] # "completed"
                       THEN "blocked" ELSE "pending"}

\* the requests of the first handler: an AddDependency or a
\* SetStatus(t, Completed)
FirstRequests ==
    {NewWorker("add_dependency", t, d, "") : t \in TaskIds, d \in TaskIds}
    \cup {NewWorker("update", t, 0, "completed") : t \in TaskIds}

\* the requests of the second handler: an AddDependency or a RemoveDependency
SecondRequests ==
    {NewWorker("add_dependency", t, d, "") : t \in TaskIds, d \in TaskIds}
    \cup {NewWorker("remove_dependency", t, d, "") : t \in TaskIds, d \in TaskIds}

InitConcurrent ==
    /\ task_dependencies \in EdgeSets
    /\ tasks \in ConsistentStatuses(task_dependencies)
    /\ next_id = MaxTasks + 1
    /\ response = Response("none", 0, 0, "none", FALSE, {}, {})
    /\ workers \in {<<a, b>> : a \in FirstRequests, b \in SecondRequests}
    /\ db0 = [tasks |-> tasks, deps |-> task_dependencies]

NextConcurrent ==
    \E w \in DOMAIN workers : SetStatusStep(w) \/ EdgeStep(w)

\* the server does not suspend a request for ever
SpecConcurrent == InitConcurrent /\ [][NextConcurrent]_vars /\ WF_vars(NextConcurrent)

(* ======================= properties of the program ==================== *)

RECURSIVE Closure(_, _)
\* the tasks in S and all their direct and indirect prerequisites
Closure(dp, S) ==
    LET more == S \cup UNION {dependencies(dp, x) : x \in S}
    IN  IF more = S THEN S ELSE Closure(dp, more)

\* a prerequisite path of at least one edge leads from a to b
Reaches(dp, a, b) == b \in Closure(dp, dependencies(dp, a))

\* no task reaches itself
Acyclic(dp) == \A t \in TaskIds : ~Reaches(dp, t, t)

\* response r is that of a request op that ended with code
Did(r, op, code) == r.op = op /\ r.code = code

\* C1 (acyclicity): the dependency edges never contain a directed cycle, and
\* an AddDependency(d, p) for which p already reaches d is rejected with
\* CycleDetected and changes neither the edges nor any status.
C1_Acyclicity ==
    [][ /\ Acyclic(task_dependencies')
        /\ \A d, p \in TaskIds :
              ( /\ response'.op = "add_dependency"
                /\ response'.task = d
                /\ response'.arg = p
                /\ Reaches(task_dependencies, p, d) )
              => /\ response'.code = "CycleDetected"
                 /\ task_dependencies' = task_dependencies
                 /\ tasks' = tasks ]_vars

\* an AddDependency was rejected for a cycle that runs over two or more
\* existing edges
C1_Witness ==
    /\ Did(response, "add_dependency", "CycleDetected")
    /\ <<response.arg, response.task>> \notin task_dependencies
    /\ Reaches(task_dependencies, response.arg, response.task)

\* C10 (self-loop rejection): AddDependency(X, X) on an existing task X fails
\* with SelfDependency and changes neither edges nor statuses; no edge ever
\* joins a task to itself.
C10_SelfLoopRejected ==
    [][ /\ \A e \in task_dependencies' : e[1] # e[2]
        /\ \A x \in DOMAIN tasks :
              ( /\ response'.op = "add_dependency"
                /\ response'.task = x
                /\ response'.arg = x )
              => /\ response'.code = "SelfDependency"
                 /\ task_dependencies' = task_dependencies
                 /\ tasks' = tasks ]_vars

\* a self-dependency was refused on a task that already has prerequisites
C10_Witness ==
    /\ Did(response, "add_dependency", "SelfDependency")
    /\ response.task = response.arg
    /\ dependencies(task_dependencies, response.task) # {}

\* the status the direct prerequisites of t call for in table tk
Derived(tk, dp, t) ==
    IF \E p \in dependencies(dp, t) : tk[p] # "completed" THEN "blocked" ELSE "pending"

\* the tasks that reach t: its direct and indirect dependents
DependentsClosure(dp, t) == {x \in TaskIds : Reaches(dp, x, t)}

\* C2 (status consistency): a task with a prerequisite that is neither
\* Completed nor InProgress is Blocked iff one of its direct prerequisites is
\* not Completed, and Pending otherwise.
C2_StatusConsistency ==
    \A t \in DOMAIN tasks :
        (dependencies(task_dependencies, t) # {} /\ tasks[t] \notin {"completed", "in_progress"})
        => /\ tasks[t] = "blocked"
              <=> \E p \in dependencies(task_dependencies, t) : tasks[p] # "completed"
           /\ tasks[t] = Derived(tasks, task_dependencies, t)

\* C3 (cascade completeness): when SetStatus moves T to Completed, every
\* direct or indirect dependent of T that is not Completed afterwards is
\* Blocked iff one of its direct prerequisites is not Completed, and Pending
\* otherwise.
C3_CascadeCompleteness ==
    [][ \A T \in DOMAIN tasks :
          ( /\ Did(response', "update", "OK")
            /\ response'.task = T
            /\ tasks[T] # "completed"
            /\ tasks'[T] = "completed" )
          => \A x \in DependentsClosure(task_dependencies', T) :
                 tasks'[x] # "completed"
                 => tasks'[x] = Derived(tasks', task_dependencies', x) ]_vars

\* C4 (derivation correctness): the derivation run by AddDependency or
\* RemoveDependency on a task that is not Completed and has prerequisites
\* leaves it Blocked iff some prerequisite is not Completed and Pending iff all
\* are Completed, and returns true exactly when it rewrote the stored status;
\* the derivation a completion runs on a direct dependent that is not
\* Completed leaves that dependent with the same status.
C4_DerivationCorrect ==
    [][ /\ \A t \in DOMAIN tasks :
              ( /\ \/ Did(response', "add_dependency", "Created")
                   \/ Did(response', "remove_dependency", "Deleted")
                /\ response'.task = t
                /\ dependencies(task_dependencies', t) # {}
                /\ tasks[t] # "completed" )
              => /\ tasks'[t] = "blocked"
                    <=> \E p \in dependencies(task_dependencies', t) : tasks'[p] # "completed"
                 /\ tasks'[t] = "pending"
                    <=> \A p \in dependencies(task_dependencies', t) : tasks'[p] = "completed"
                 /\ response'.changed <=> tasks'[t] # tasks[t]
        /\ \A p, t \in DOMAIN tasks :
              ( /\ Did(response', "update", "OK")
                /\ response'.task = p
                /\ tasks[p] # "completed"
                /\ tasks'[p] = "completed"
                /\ p \in dependencies(task_dependencies, t)
                /\ tasks[t] # "completed" )
              => /\ tasks'[t] = "blocked"
                    <=> \E q \in dependencies(task_dependencies, t) : tasks'[q] # "completed"
                 /\ tasks'[t] = "pending"
                    <=> \A q \in dependencies(task_dependencies, t) : tasks'[q] = "completed" ]_vars

\* a derivation run by AddDependency rewrote an in-progress task to Pending
\* and returned true
C4_Witness ==
    /\ Did(response, "add_dependency", "Created")
    /\ response.changed
    /\ response.written = {<<response.task, "in_progress">>}
    /\ tasks[response.task] = "pending"

\* C5 (unblocking on the last completion): when SetStatus moves a
\* prerequisite of a Blocked task D to Completed, D stays Blocked if some
\* prerequisite of D is still not Completed and becomes Pending if that was
\* the last one.
C5_UnblockOnLastCompletion ==
    [][ \A D, p \in DOMAIN tasks :
          ( /\ Did(response', "update", "OK")
            /\ response'.task = p
            /\ tasks[p] # "completed"
            /\ tasks'[p] = "completed"
            /\ p \in dependencies(task_dependencies, D)
            /\ tasks[D] = "blocked" )
          => tasks'[D] = IF \A q \in dependencies(task_dependencies, D) : tasks'[q] = "completed"
                         THEN "pending" ELSE "blocked" ]_vars

\* the completion of the last of two prerequisites moved a Blocked task to
\* Pending
C5_Witness ==
    \E D \in DOMAIN tasks :
        /\ Did(response, "update", "OK")
        /\ response.task \in dependencies(task_dependencies, D)
        /\ Cardinality(dependencies(task_dependencies, D)) >= 2
        /\ <<D, "blocked">> \in response.written
        /\ tasks[D] = "pending"

\* the completion of one of two prerequisites left a Blocked task Blocked
C5_WitnessStillBlocked ==
    \E D \in DOMAIN tasks :
        /\ Did(response, "update", "OK")
        /\ response.task \in dependencies(task_dependencies, D)
        /\ tasks[response.task] = "completed"
        /\ tasks[D] = "blocked"
        /\ \E q \in dependencies(task_dependencies, D) : tasks[q] # "completed"

\* the request behind response r ran the derivation on task t: it added or
\* removed a prerequisite edge of t, or it moved a direct prerequisite of t
\* from another status to Completed (old, new: the table before and after)
DerivationRanOn(r, old, new, dp, t) ==
    \/ /\ Did(r, "add_dependency", "Created") \/ Did(r, "remove_dependency", "Deleted")
       /\ r.task = t
    \/ /\ Did(r, "update", "OK")
       /\ r.task \in dependencies(dp, t)
       /\ old[r.task] # "completed"
       /\ new[r.task] = "completed"

\* the request behind response r was a manual SetStatus on task t
ManualSetStatus(r, t) == Did(r, "update", "OK") /\ r.task = t

\* C6 as claimed (in-progress is not overridden): a task that is InProgress
\* leaves InProgress only through a manual SetStatus on it.
C6_InProgressNotOverridden ==
    [][ \A t \in DOMAIN tasks \cap DOMAIN tasks' :
          (tasks[t] = "in_progress" /\ tasks'[t] # "in_progress")
          => ManualSetStatus(response', t) ]_vars

\* C6 as amended: a derivation that runs on an InProgress task with at least
\* one prerequisite rewrites it, to Blocked if a direct prerequisite is not
\* Completed and to Pending otherwise; an InProgress task leaves InProgress
\* only through such a derivation or a manual SetStatus on it, and a
\* derivation leaves an InProgress task without prerequisites alone.
C6_InProgressOverridden ==
    [][ \A t \in DOMAIN tasks \cap DOMAIN tasks' :
          tasks[t] = "in_progress"
          => /\ ( /\ DerivationRanOn(response', tasks, tasks', task_dependencies, t)
                  /\ dependencies(task_dependencies', t) # {} )
                => tasks'[t] = Derived(tasks', task_dependencies', t)
             /\ ( /\ DerivationRanOn(response', tasks, tasks', task_dependencies, t)
                  /\ dependencies(task_dependencies', t) = {} )
                => tasks'[t] = "in_progress"
             /\ tasks'[t] # "in_progress"
                => \/ ManualSetStatus(response', t)
                   \/ DerivationRanOn(response', tasks, tasks', task_dependencies, t) ]_vars

\* the completion of its prerequisite moved an InProgress task to Pending
C6_Witness ==
    \E t \in DOMAIN tasks :
        /\ Did(response, "update", "OK")
        /\ response.task \in dependencies(task_dependencies, t)
        /\ <<t, "in_progress">> \in response.written
        /\ tasks[t] = "pending"

\* C7 (completion is sticky): a task that is Completed leaves Completed only
\* through a manual SetStatus on it, whatever its prerequisites are; the
\* derivations run by AddDependency, RemoveDependency and a completion
\* cascade leave it Completed.
C7_CompletionSticky ==
    [][ \A t \in DOMAIN tasks \cap DOMAIN tasks' :
          (tasks[t] = "completed" /\ tasks'[t] # "completed")
          => ManualSetStatus(response', t) ]_vars

\* AddDependency gave a Completed task a prerequisite that is not Completed,
\* and the task is still Completed
C7_Witness ==
    /\ Did(response, "add_dependency", "Created")
    /\ tasks[response.task] = "completed"
    /\ tasks[response.arg] # "completed"
    /\ ~response.changed

\* C8 (RemoveDependency unblocks): a successful RemoveDependency(d, p) on a
\* Blocked task d whose remaining prerequisites are all Completed, or that has
\* none left, leaves d Pending; a RemoveDependency of an edge that does not
\* exist fails with EdgeNotFound and changes neither edges nor statuses.
C8_RemoveUnblocks ==
    [][ \A d \in DOMAIN tasks, p \in TaskIds :
          ( /\ response'.op = "remove_dependency"
            /\ response'.task = d
            /\ response'.arg = p )
          => /\ <<d, p>> \in task_dependencies
                => /\ response'.code = "Deleted"
                   /\ task_dependencies' = task_dependencies \ {<<d, p>>}
                   /\ ( /\ tasks[d] = "blocked"
                        /\ \A q \in dependencies(task_dependencies', d) : tasks'[q] = "completed" )
                      => tasks'[d] = "pending"
             /\ <<d, p>> \notin task_dependencies
                => /\ response'.code = "EdgeNotFound"
                   /\ task_dependencies' = task_dependencies
                   /\ tasks' = tasks ]_vars

\* C9 (AddDependency reflects the new constraint): a successful
\* AddDependency(d, p) inserts the edge, leaves a task d that is not Completed
\* Blocked if a direct prerequisite of d is not Completed and Pending if all
\* are Completed, and changes the status of no task other than d.
C9_AddReflectsConstraint ==
    [][ \A d \in DOMAIN tasks, p \in TaskIds :
          ( /\ Did(response', "add_dependency", "Created")
            /\ response'.task = d
            /\ response'.arg = p )
          => /\ task_dependencies' = task_dependencies \cup {<<d, p>>}
             /\ DOMAIN tasks' = DOMAIN tasks
             /\ \A x \in DOMAIN tasks \ {d} : tasks'[x] = tasks[x]
             /\ tasks[d] # "completed"
                => tasks'[d] = Derived(tasks', task_dependencies', d) ]_vars

\* AddDependency on a Pending task whose other prerequisite is Completed
\* added one that is not, and the task became Blocked
C9_Witness ==
    /\ Did(response, "add_dependency", "Created")
    /\ response.written = {<<response.task, "pending">>}
    /\ tasks[response.task] = "blocked"
    /\ tasks[response.arg] # "completed"
    /\ \E q \in dependencies(task_dependencies, response.task) : tasks[q] = "completed"

\* C11 (deletion guard): DeleteTask(T) on a task that some task depends on
\* fails with HasDependents, the error lists exactly the direct dependents of
\* T, and tasks, edges and statuses are unchanged; a DeleteTask that succeeds
\* was on a task without dependents.
C11_DeletionGuard ==
    [][ \A T \in DOMAIN tasks :
          (response'.op = "destroy" /\ response'.task = T)
          => /\ dependents(task_dependencies, T) # {}
                => /\ response'.code = "HasDependents"
                   /\ response'.dependent_tasks = {x \in DOMAIN tasks : <<x, T>> \in task_dependencies}
                   /\ tasks' = tasks
                   /\ task_dependencies' = task_dependencies
             /\ response'.code = "Deleted"
                => /\ dependents(task_dependencies, T) = {}
                   /\ T \notin DOMAIN tasks' ]_vars

\* a DeleteTask was refused on a task with two dependents, both listed
C11_Witness ==
    /\ Did(response, "destroy", "HasDependents")
    /\ response.task \in DOMAIN tasks
    /\ Cardinality(response.dependent_tasks) = 2
    /\ response.dependent_tasks = dependents(task_dependencies, response.task)

\* C13 (edge uniqueness): AddDependency(d, p) on an edge that exists fails
\* with DuplicateEdge and changes nothing; an AddDependency that succeeds was
\* on a pair without an edge and adds exactly that one edge.
C13_EdgeUniqueness ==
    [][ \A d \in DOMAIN tasks, p \in TaskIds :
          ( /\ response'.op = "add_dependency"
            /\ response'.task = d
            /\ response'.arg = p )
          => /\ <<d, p>> \in task_dependencies
                => /\ response'.code = "DuplicateEdge"
                   /\ task_dependencies' = task_dependencies
                   /\ tasks' = tasks
             /\ response'.code = "Created"
                => /\ <<d, p>> \notin task_dependencies
                   /\ task_dependencies' = task_dependencies \cup {<<d, p>>}
                   /\ Cardinality(task_dependencies') = Cardinality(task_dependencies) + 1 ]_vars

\* an AddDependency was refused because its edge is there already
C13_Witness ==
    /\ Did(response, "add_dependency", "DuplicateEdge")
    /\ <<response.task, response.arg>> \in task_dependencies

\* C14 (tasks without prerequisites are user-controlled): the status of a
\* task that has no prerequisite edge once the request has changed the edges
\* is changed by a manual SetStatus on that task only.
C14_NoPrerequisitesUserControlled ==
    [][ \A t \in DOMAIN tasks \cap DOMAIN tasks' :
          (dependencies(task_dependencies', t) = {} /\ tasks'[t] # tasks[t])
          => ManualSetStatus(response', t) ]_vars

\* RemoveDependency took the last prerequisite of a Blocked task and the
\* derivation left the status as it was
C14_Witness ==
    /\ Did(response, "remove_dependency", "Deleted")
    /\ dependencies(task_dependencies, response.task) = {}
    /\ tasks[response.task] = "blocked"
    /\ response.written = {}

C19_ReferentialIntegrity ==
    [][ /\ \A e \in task_dependencies' : e[1] \in DOMAIN tasks' /\ e[2] \in DOMAIN tasks'
        /\ \A d \in DOMAIN tasks, p \in TaskIds \ DOMAIN tasks :
              ( /\ response'.op = "add_dependency"
                /\ response'.task = d
                /\ response'.arg = p )
              => /\ response'.code = "TaskNotFound"
                 /\ task_dependencies' = task_dependencies
        /\ \A T \in DOMAIN tasks :
              (Did(response', "destroy", "Deleted") /\ response'.task = T)
              => /\ DOMAIN tasks' = DOMAIN tasks \ {T}
                 /\ task_dependencies' = {e \in task_dependencies : e[1] # T}
                 /\ \A e \in task_dependencies : e[2] # T ]_vars

\* a DeleteTask removed a task and the edges that remain join existing tasks
C19_Witness ==
    /\ Did(response, "destroy", "Deleted")
    /\ response.task \notin DOMAIN tasks
    /\ task_dependencies # {}

\* an AddDependency named a prerequisite that is not in the store
C19_WitnessNotFound ==
    /\ Did(response, "add_dependency", "TaskNotFound")
    /\ response.task \in DOMAIN tasks
    /\ response.arg \notin DOMAIN tasks

\* C12 (idempotence): a call of DeriveFromPrerequisites(t), or of
\* CascadeOnCompletion(t), that directly follows the same call on the same
\* task writes no status and reports no change.
C12_Idempotence ==
    [][ ( /\ response'.op \in {"derive", "cascade"}
          /\ response'.code = "Repeat" )
        => /\ tasks' = tasks
           /\ response'.written = {}
           /\ ~response'.changed ]_vars

\* a cascade that wrote two statuses was run again and wrote nothing
C12_Witness ==
    /\ response.op = "cascade"
    /\ response.code = "Repeat"
    /\ response.arg >= 2
    /\ response.written = {}

\* a derivation that wrote the status was run again and wrote nothing
C12_WitnessDerive ==
    /\ response.op = "derive"
    /\ response.code = "Repeat"
    /\ response.arg = 1
    /\ ~response.changed

\* C17 (cascade termination): a SetStatus(T, Completed) on any acyclic graph
\* with any statuses comes to its end, and by then it has written the status
\* of T once and the status of each direct dependent of T at most once.
C17_CascadeTerminates ==
    /\ <>AllDone
    /\ [](\A w \in DOMAIN workers :
             workers[w].writes <= 1 + Cardinality(dependents(task_dependencies, workers[w].task)))

\* the cascade has ended after it wrote the statuses of two dependents
C17_Witness ==
    /\ AllDone
    /\ workers[1].code = "OK"
    /\ workers[1].writes = 3
    /\ tasks[workers[1].task] = "completed"

\* C15 (cycle check under concurrency): when two AddDependency requests run
\* concurrently, query by query, on an acyclic graph, the edge set stays
\* acyclic.
C15_ConcurrentAcyclic ==
    (/\ workers # << >>
     /\ \A w \in DOMAIN workers : workers[w].op = "add_dependency")
    => Acyclic(task_dependencies)

\* the store after request r ran alone on the store db
SerialApply(db, r) ==
    CASE r.op = "add_dependency" ->
           IF add_dependency_outcome(db.tasks, db.deps, r.task, r.arg) = "Created"
           THEN LET x == TaskDependency_save(db.tasks, db.deps, r.task, r.arg)
                IN  {[tasks |-> x.tasks, deps |-> x.deps]}
           ELSE {db}
      [] r.op = "remove_dependency" ->
           IF <<r.task, r.arg>> \in db.deps
           THEN LET x == TaskDependency_delete(db.tasks, db.deps, r.task, r.arg)
                IN  {[tasks |-> x.tasks, deps |-> x.deps]}
           ELSE {db}
      [] OTHER ->
           {[tasks |-> Task_save(db.tasks, db.deps, r.task, r.status, ord), deps |-> db.deps] :
               ord \in RowOrders(dependents(db.deps, r.task))}

\* the stores after a ran alone and then b ran alone
SerialOutcomes(db, a, b) == UNION {SerialApply(x, b) : x \in SerialApply(db, a)}

\* the two handlers are a SetStatus(p, Completed) and an AddDependency(d, p)
\* or a RemoveDependency on a dependent d of p
CompletionMeetsEdgeChange ==
    /\ workers # << >>
    /\ Len(workers) = 2
    /\ workers[1].op = "update"
    /\ \/ workers[2].op = "add_dependency" /\ workers[2].arg = workers[1].task
       \/ /\ workers[2].op = "remove_dependency"
          /\ <<workers[2].task, workers[1].task>> \in db0.deps

\* C16 (serializable status derivation): when a SetStatus(p, Completed) runs
\* concurrently with an AddDependency(d, p) or a RemoveDependency on a
\* dependent d of p, the statuses and edges at the end are those of one of
\* the two serial orders, and d is not Blocked with at least one prerequisite
\* and all of them Completed.
C16_SerializableDerivation ==
    (CompletionMeetsEdgeChange /\ AllDone)
    => /\ [tasks |-> tasks, deps |-> task_dependencies]
            \in SerialOutcomes(db0, workers[1], workers[2])
                \cup SerialOutcomes(db0, workers[2], workers[1])
       /\ LET d == workers[2].task
          IN  ~ /\ tasks[d] = "blocked"
                /\ dependencies(task_dependencies, d) # {}
                /\ \A q \in dependencies(task_dependencies, d) : tasks[q] = "completed"

====
